---- MODULE Spec2Model ----
(***************************************************************************)
(* Image Border Cropper (src/image_border_cropper.pyw).                    *)
(*                                                                         *)
(* Two parts are modelled:                                                 *)
(*   - the pixel algorithm of trim_and_expand_border_to_content and        *)
(*     get_image_hash, as operators over small raster images, exercised by *)
(*     the specification SpecFn;                                           *)
(*   - the clipboard monitor loop of main(), the tray callbacks            *)
(*     toggle_pause / on_exit, send_image_to_clipboard and the other       *)
(*     processes that use the clipboard, as the specification Spec         *)
(*     (FairSpec adds the scheduling fairness of the main thread).         *)
(*                                                                         *)
(* An image is a record [mode, w, h, px]: px is the raster in row-major    *)
(* order, one <<r, g, b, a>> tuple per pixel.  A mode "RGB" image carries  *)
(* a = 255 in every pixel, as Pillow's 4-byte RGB storage does.            *)
(***************************************************************************)
EXTENDS Integers, Sequences, FiniteSets, TLC

VARIABLES
    exit_event,       \* threading.Event, line 47
    running_event,    \* threading.Event, lines 48-49
    icon_running,     \* the tray icon's menu is alive (icon.run() .. icon.stop())
    pc,               \* position of the main thread in main()
    last_image_hash,  \* local of main(), line 209
    img,              \* local of main(), line 215
    processed_img,    \* local of main(), line 222
    logged,           \* last message main() logged in the current iteration
    PADDING,          \* line 204
    TOLERANCE,        \* line 205
    clipboard,        \* content of the Windows clipboard
    clip_open,        \* this process holds the clipboard open
    held,             \* history: clipboard content when OpenClipboard succeeded
    writes,           \* history: completed writes since the last external copy
    probe,            \* history: the image whose re-copy scenario is followed
    stage,            \* history: progress of that scenario, 0..3
    fn_pc,            \* SpecFn: position of the function exerciser
    fn_img,           \* SpecFn: the input image
    fn_out,           \* SpecFn: trim_and_expand_border_to_content(fn_img)
    fn_out2           \* SpecFn: trim_and_expand_border_to_content(fn_out)

vars == <<exit_event, running_event, icon_running, pc, last_image_hash, img,
          processed_img, logged, PADDING, TOLERANCE, clipboard, clip_open,
          held, writes, probe, stage, fn_pc, fn_img, fn_out, fn_out2>>

monitor_vars == <<exit_event, running_event, icon_running, pc, last_image_hash,
                  img, processed_img, logged, clipboard, clip_open, held,
                  writes, probe, stage>>

fn_vars == <<fn_pc, fn_img, fn_out, fn_out2>>

-----------------------------------------------------------------------------
(* Bounds of the model.                                                    *)

MaxW == 3          \* widest enumerated image
MaxH == 3          \* tallest enumerated image
MaxPixels == 4     \* most pixels of an enumerated image
MaxPad == 1        \* paddings 0..MaxPad
MaxRect == 2       \* foreground rectangles up to MaxRect x MaxRect
MaxMargin == 1     \* background margins 0..MaxMargin around a rectangle

-----------------------------------------------------------------------------
(* Colours.                                                                *)

WHITE == <<255, 255, 255, 255>>
BLACK == <<0, 0, 0, 255>>
NEAR  == <<225, 225, 225, 255>>   \* 30 away from WHITE in every channel
CLEAR == <<0, 0, 0, 0>>           \* fully transparent black
HALF  == <<0, 0, 0, 128>>         \* semi-transparent black

Palette == {WHITE, BLACK, NEAR, CLEAR, HALF}
OpaquePalette == {WHITE, BLACK, NEAR}
Tolerances == {0, 30}

-----------------------------------------------------------------------------
(* Pillow operations used by the program.                                  *)

NoImage == [mode |-> "none", w |-> 0, h |-> 0, px |-> <<>>]

Abs(n) == IF n < 0 THEN -n ELSE n
Min(a, b) == IF a < b THEN a ELSE b

\* Image.getpixel((x, y)), 0-based coordinates
getpixel(im, x, y) == im.px[y * im.w + x + 1]

\* Image.new(mode, (w, h), colour)
new(mode, w, h, colour) ==
    [mode |-> mode, w |-> w, h |-> h, px |-> [i \in 1..(w * h) |-> colour]]

\* Image.convert("RGBA"): an RGB image gains alpha 255 (already stored)
convertRGBA(im) == [im EXCEPT !.mode = "RGBA"]

\* Image.convert("RGB"): the alpha channel is dropped, not blended
convertRGB(im) ==
    [im EXCEPT !.mode = "RGB",
               !.px = [i \in 1..Len(im.px) |->
                          <<im.px[i][1], im.px[i][2], im.px[i][3], 255>>]]

\* ImageChops.difference followed by convert("L"): the ITU-R 601-2 luma of
\* the per-channel absolute difference; the alpha difference is not in it
diffL(p, q) ==
    (Abs(p[1] - q[1]) * 19595 + Abs(p[2] - q[2]) * 38470
       + Abs(p[3] - q[3]) * 7471 + 32768) \div 65536

\* (variant: a pixel whose difference equals the tolerance counts as content)
maskMutStrict(im, bg_color, tolerance) ==
    {i \in 1..Len(im.px) : diffL(im.px[i], bg_color) >= tolerance}

\* lut of lines 181-182 applied by point(): the raster positions of the
\* mask's 255 pixels, those whose difference exceeds the tolerance
mask(im, bg_color, tolerance) ==
    {i \in 1..Len(im.px) : diffL(im.px[i], bg_color) > tolerance}

NoBox == <<>>

\* Image.getbbox(): (left, top, right, bottom), right and bottom exclusive
getbbox(m, w) ==
    IF m = {} THEN NoBox
    ELSE LET xs == {(i - 1) % w : i \in m}
             ys == {(i - 1) \div w : i \in m}
             lo(S) == CHOOSE a \in S : \A b \in S : a <= b
             hi(S) == CHOOSE a \in S : \A b \in S : a >= b
         IN <<lo(xs), lo(ys), hi(xs) + 1, hi(ys) + 1>>

\* Image.crop(box)
crop(im, box) ==
    LET cw == box[3] - box[1]
        ch == box[4] - box[2]
    IN [mode |-> im.mode, w |-> cw, h |-> ch,
        px |-> [i \in 1..(cw * ch) |->
                   getpixel(im, box[1] + ((i - 1) % cw), box[2] + ((i - 1) \div cw))]]

\* Paste.c: DIV255(in1 * (255 - mask) + in2 * mask)
DIV255(a) == LET tmp == a + 128 IN ((tmp \div 256) + tmp) \div 256
BLEND(m, in1, in2) == DIV255(in1 * (255 - m) + in2 * m)

blendPixel(out, in) ==
    [c \in 1..4 |-> BLEND(in[4], out[c], in[c])]

\* (variant: the offset is ignored, src lands in the top-left corner)
pasteMutOrigin(dest, src, ox, oy) ==
    [dest EXCEPT !.px =
        [i \in 1..Len(dest.px) |->
            LET x == (i - 1) % dest.w
                y == (i - 1) \div dest.w
            IN IF x < src.w /\ y < src.h
               THEN blendPixel(dest.px[i], getpixel(src, x, y))
               ELSE dest.px[i]]]

\* Image.paste(src, (ox, oy), src): src is its own RGBA matte
paste(dest, src, ox, oy) ==
    [dest EXCEPT !.px =
        [i \in 1..Len(dest.px) |->
            LET x == ((i - 1) % dest.w) - ox
                y == ((i - 1) \div dest.w) - oy
            IN IF x >= 0 /\ x < src.w /\ y >= 0 /\ y < src.h
               THEN blendPixel(dest.px[i], getpixel(src, x, y))
               ELSE dest.px[i]]]

\* lines 176-183: the content bounding box, or NoBox
content_bbox(im, tolerance) ==
    LET rgba == convertRGBA(im)
        bg_color == getpixel(rgba, 0, 0)
    IN getbbox(mask(rgba, bg_color, tolerance), rgba.w)

\* (variant: the crop is returned without the padded canvas)
trimMutNoPad(im, padding, tolerance) ==
    LET rgba == convertRGBA(im)
        bbox == content_bbox(im, tolerance)
    IN IF bbox = NoBox THEN rgba ELSE convertRGB(crop(rgba, bbox))

\* (variant: without the early return of lines 184-185, a missing box is
\* taken as the whole image)
trimMutPadUniform(im, padding, tolerance) ==
    LET rgba == convertRGBA(im)
        bg_color == getpixel(rgba, 0, 0)
        found == content_bbox(im, tolerance)
        bbox == IF found = NoBox THEN <<0, 0, rgba.w, rgba.h>> ELSE found
        object_only == crop(rgba, bbox)
        standardized_img == new("RGBA", object_only.w + (padding * 2),
                                object_only.h + (padding * 2), bg_color)
    IN convertRGB(paste(standardized_img, object_only, padding, padding))

trim_and_expand_border_to_content(im, padding, tolerance) ==
    LET rgba == convertRGBA(im)
        bg_color == getpixel(rgba, 0, 0)
        bbox == content_bbox(im, tolerance)
    IN IF bbox = NoBox
       THEN rgba
       ELSE LET object_only == crop(rgba, bbox)
                new_width == object_only.w + (padding * 2)
                new_height == object_only.h + (padding * 2)
                standardized_img == new("RGBA", new_width, new_height, bg_color)
            IN convertRGB(paste(standardized_img, object_only, padding, padding))

\* img.convert("RGB").tobytes(): the raster's bytes, without the dimensions
tobytes(im) ==
    [k \in 1..(3 * Len(im.px)) |-> im.px[((k - 1) \div 3) + 1][((k - 1) % 3) + 1]]

\* hashlib.md5(...).hexdigest(), taken as injective on the bytes
get_image_hash(im) == tobytes(convertRGB(im))

None == <<>>

\* same width, height and pixel values
PixelIdentical(a, b) == a.w = b.w /\ a.h = b.h /\ a.px = b.px

\* same width, height and RGB pixel values
SameVisible(a, b) == a.w = b.w /\ a.h = b.h /\ convertRGB(a).px = convertRGB(b).px

-----------------------------------------------------------------------------
(* The images the function is exercised on.                                *)

Shapes ==
    {s \in (1..MaxW) \X (1..MaxH) : s[1] * s[2] <= MaxPixels}

ImagesOf(w, h) ==
    {[mode |-> "RGBA", w |-> w, h |-> h, px |-> p] : p \in [1..(w * h) -> Palette]}

SmallImages == UNION {ImagesOf(s[1], s[2]) : s \in Shapes}

\* a solid fg rectangle rw x rh centred on bg with margin m on every side
RectImage(rw, rh, m, fg, bg) ==
    LET w == rw + 2 * m
        h == rh + 2 * m
    IN [mode |-> "RGBA", w |-> w, h |-> h,
        px |-> [i \in 1..(w * h) |->
                   LET x == (i - 1) % w
                       y == (i - 1) \div w
                   IN IF x >= m /\ x < m + rw /\ y >= m /\ y < m + rh
                      THEN fg ELSE bg]]

RectParams ==
    {r \in [rw : 1..MaxRect, rh : 1..MaxRect, m : 0..MaxMargin,
            fg : Palette, bg : OpaquePalette] : r.fg # r.bg}

RectImages == {RectImage(r.rw, r.rh, r.m, r.fg, r.bg) : r \in RectParams}

-----------------------------------------------------------------------------
(* SpecFn: the border normalizer applied to every enumerated image, and    *)
(* then to its own result.                                                 *)

\* the main thread has not started: every monitor action is disabled
MonitorIdle ==
    /\ exit_event = FALSE
    /\ running_event = TRUE
    /\ icon_running = FALSE
    /\ pc = "off"
    /\ last_image_hash = None
    /\ img = NoImage
    /\ processed_img = NoImage
    /\ logged = "none"
    /\ clipboard = [kind |-> "empty", img |-> NoImage]
    /\ clip_open = FALSE
    /\ held = [kind |-> "empty", img |-> NoImage]
    /\ writes = 0
    /\ probe = NoImage
    /\ stage = 0

\* the 40x40 image with a centred 10x10 black square on white
Scenario == RectImage(10, 10, 15, BLACK, WHITE)

InitFn ==
    /\ MonitorIdle
    /\ \/ /\ PADDING \in 0..MaxPad
          /\ TOLERANCE \in Tolerances
          /\ fn_img \in SmallImages \cup RectImages
       \/ /\ PADDING = 5
          /\ TOLERANCE = 30
          /\ fn_img = Scenario
    /\ fn_pc = "input"
    /\ fn_out = NoImage
    /\ fn_out2 = NoImage

Normalize ==
    /\ fn_pc = "input"
    /\ fn_out' = trim_and_expand_border_to_content(fn_img, PADDING, TOLERANCE)
    /\ fn_pc' = "once"
    /\ UNCHANGED <<fn_img, fn_out2, PADDING, TOLERANCE, monitor_vars>>

NormalizeAgain ==
    /\ fn_pc = "once"
    /\ fn_out2' = trim_and_expand_border_to_content(fn_out, PADDING, TOLERANCE)
    /\ fn_pc' = "twice"
    /\ UNCHANGED <<fn_img, fn_out, PADDING, TOLERANCE, monitor_vars>>

NextFn == Normalize \/ NormalizeAgain

SpecFn == InitFn /\ [][NextFn]_vars

-----------------------------------------------------------------------------
(* Claims about the border normalizer (checked under SpecFn).              *)

\* C1 (as stated): normalizing twice gives the pixel-identical image of
\* normalizing once, for every image, padding >= 0 and tolerance.
C1_Idempotent ==
    fn_pc = "twice" => PixelIdentical(fn_out2, fn_out)

\* C7 (as stated): a solid W x H rectangle centred with margin M >= 0 on a
\* uniform background, under a tolerance that separates the two colours,
\* normalizes to an image of size (W + 2P, H + 2P).
IsRect(r) == fn_img = RectImage(r.rw, r.rh, r.m, r.fg, r.bg)
Separates(r) == diffL(r.fg, r.bg) > TOLERANCE

C7_RectSize ==
    \A r \in RectParams :
        (fn_pc # "input" /\ IsRect(r) /\ Separates(r))
            => /\ fn_out.w = r.rw + 2 * PADDING
               /\ fn_out.h = r.rh + 2 * PADDING

\* C7 (amended): the same with margin M >= 1; with M = 0 the image is one
\* colour, (0,0) samples that colour, and the image comes back W x H.
C7_RectSizeMargin ==
    \A r \in RectParams :
        (fn_pc # "input" /\ IsRect(r) /\ Separates(r))
            => IF r.m >= 1
               THEN /\ fn_out.w = r.rw + 2 * PADDING
                    /\ fn_out.h = r.rh + 2 * PADDING
               ELSE /\ fn_out.w = r.rw
                    /\ fn_out.h = r.rh

C7_Witness ==
    /\ fn_pc = "once"
    /\ PADDING = 1
    /\ fn_img = RectImage(2, 1, 1, BLACK, WHITE)
    /\ fn_out.w = 4
    /\ fn_out.h = 3

\* every pixel of im has the colour of its first pixel
IsUniform(im) == \A i \in 1..Len(im.px) : im.px[i] = im.px[1]

\* C12: an image whose pixels all have one colour, of any size, has no
\* content bounding box and is returned with its dimensions and pixel
\* values unchanged.
C12_UniformUnchanged ==
    (fn_pc # "input" /\ IsUniform(fn_img))
        => /\ content_bbox(fn_img, TOLERANCE) = NoBox
           /\ PixelIdentical(fn_out, fn_img)

C12_Witness ==
    /\ fn_pc = "once"
    /\ PADDING = 1
    /\ TOLERANCE = 0
    /\ fn_img = RectImage(2, 2, 0, HALF, WHITE)
    /\ fn_out.w = 2
    /\ fn_out.h = 2
    /\ fn_out.px = <<HALF, HALF, HALF, HALF>>

\* the red, green and blue of a pixel
rgb(p) == <<p[1], p[2], p[3]>>

\* C16: when a content bounding box exists, the result is a canvas of size
\* (content_width + 2 * padding, content_height + 2 * padding); outside the
\* content's rectangle at offset (padding, padding) every pixel has the
\* colour of input pixel (0,0), and inside it every opaque content pixel
\* keeps its colour.  The 40x40 image with a centred 10x10 square, padding 5
\* and tolerance 30, gives 20x20 with the square at (5,5).
C16_Canvas ==
    LET box == content_bbox(fn_img, TOLERANCE)
        cw == box[3] - box[1]
        ch == box[4] - box[2]
        bg == getpixel(fn_img, 0, 0)
    IN (fn_pc # "input" /\ box # NoBox)
          => /\ fn_out.w = cw + 2 * PADDING
             /\ fn_out.h = ch + 2 * PADDING
             /\ Len(fn_out.px) = fn_out.w * fn_out.h
             /\ \A x \in 0..(fn_out.w - 1), y \in 0..(fn_out.h - 1) :
                   LET cx == x - PADDING
                       cy == y - PADDING
                   IN IF cx >= 0 /\ cx < cw /\ cy >= 0 /\ cy < ch
                      THEN LET src == getpixel(fn_img, box[1] + cx, box[2] + cy)
                           IN src[4] = 255
                                 => rgb(getpixel(fn_out, x, y)) = rgb(src)
                      ELSE rgb(getpixel(fn_out, x, y)) = rgb(bg)

C16_Witness ==
    /\ fn_pc = "once"
    /\ fn_img = Scenario
    /\ PADDING = 5
    /\ TOLERANCE = 30
    /\ fn_out.w = 20
    /\ fn_out.h = 20
    /\ getpixel(fn_out, 4, 4) = WHITE
    /\ getpixel(fn_out, 5, 5) = BLACK
    /\ getpixel(fn_out, 14, 14) = BLACK
    /\ getpixel(fn_out, 15, 15) = WHITE

\* pixel (x, y) of the input differs from pixel (0,0) by more than the
\* tolerance
Foreground(x, y) ==
    diffL(getpixel(fn_img, x, y), getpixel(fn_img, 0, 0)) > TOLERANCE

\* C17: the content bounding box is the minimal right/bottom-exclusive box
\* holding the pixels whose difference from pixel (0,0) strictly exceeds the
\* tolerance (a difference equal to the tolerance is background); when it
\* exists 0 <= left < right <= width and 0 <= top < bottom <= height, and
\* it is absent exactly when no pixel exceeds the tolerance.
C17_MinimalBox ==
    LET box == content_bbox(fn_img, TOLERANCE)
        xs == 0..(fn_img.w - 1)
        ys == 0..(fn_img.h - 1)
    IN fn_pc # "input"
          => /\ (box = NoBox) <=> (\A x \in xs, y \in ys : ~Foreground(x, y))
             /\ (box = NoBox) => fn_out = fn_img
             /\ (box # NoBox) =>
                   /\ 0 <= box[1] /\ box[1] < box[3] /\ box[3] <= fn_img.w
                   /\ 0 <= box[2] /\ box[2] < box[4] /\ box[4] <= fn_img.h
                   /\ \A x \in xs, y \in ys :
                         Foreground(x, y)
                            => /\ box[1] <= x /\ x < box[3]
                               /\ box[2] <= y /\ y < box[4]
                   /\ \E y \in ys : Foreground(box[1], y)
                   /\ \E y \in ys : Foreground(box[3] - 1, y)
                   /\ \E x \in xs : Foreground(x, box[2])
                   /\ \E x \in xs : Foreground(x, box[4] - 1)
                   /\ fn_out.w = box[3] - box[1] + 2 * PADDING
                   /\ fn_out.h = box[4] - box[2] + 2 * PADDING

C17_Witness ==
    /\ fn_pc = "once"
    /\ TOLERANCE = 30
    /\ PADDING = 0
    /\ fn_img = [mode |-> "RGBA", w |-> 3, h |-> 1,
                 px |-> <<WHITE, NEAR, BLACK>>]
    /\ content_bbox(fn_img, TOLERANCE) = <<2, 0, 3, 1>>
    /\ fn_out.w = 1
    /\ fn_out.h = 1

-----------------------------------------------------------------------------
(* Spec: the clipboard monitor.                                            *)

MaxWrites == 2     \* the write counter saturates here

Content(kind, im) == [kind |-> kind, img |-> im]
Empty == Content("empty", NoImage)      \* cleared clipboard
Text == Content("text", NoImage)        \* non-empty text
Other == Content("other", NoImage)      \* neither an image nor text (files)

Raster(w, h, p) == [mode |-> "RGBA", w |-> w, h |-> h, px |-> p]

\* what other processes copy
Bordered == Raster(3, 1, <<WHITE, BLACK, WHITE>>)
Pair == Raster(2, 1, <<BLACK, NEAR>>)
Triple == Raster(3, 1, <<WHITE, BLACK, NEAR>>)
Uniform == Raster(1, 1, <<WHITE>>)
Strip == Raster(9, 1, <<WHITE, WHITE, WHITE, WHITE, BLACK,
                         WHITE, WHITE, WHITE, WHITE>>)
Ghosted == Raster(3, 1, <<WHITE, BLACK, CLEAR>>)

ExtImages == {Bordered, Pair, Triple, Uniform, Strip, Ghosted}
ExtContents == {Content("image", i) : i \in ExtImages} \cup {Empty, Text, Other}

Init ==
    /\ exit_event = FALSE
    /\ running_event = TRUE
    /\ icon_running = TRUE
    /\ pc = "loop"
    /\ last_image_hash = None
    /\ img = NoImage
    /\ processed_img = NoImage
    /\ logged = "none"
    /\ PADDING \in 0..MaxPad
    /\ TOLERANCE \in Tolerances
    /\ clipboard = Empty
    /\ clip_open = FALSE
    /\ held = Empty
    /\ writes = 0
    /\ probe \in ExtImages
    /\ stage = 0
    /\ fn_pc = "off"
    /\ fn_img = NoImage
    /\ fn_out = NoImage
    /\ fn_out2 = NoImage

config_vars == <<PADDING, TOLERANCE, probe, fn_pc, fn_img, fn_out, fn_out2>>

(* ---- tray thread ---- *)

\* toggle_pause, lines 77-86
toggle_pause ==
    /\ icon_running
    /\ running_event' = ~running_event
    /\ UNCHANGED <<exit_event, icon_running, pc, last_image_hash, img,
                   processed_img, logged, clipboard, clip_open, held, writes,
                   stage, config_vars>>

\* on_exit, lines 94-99: the running flag is left as it is
on_exit ==
    /\ icon_running
    /\ icon_running' = FALSE
    /\ exit_event' = TRUE
    /\ UNCHANGED <<running_event, pc, last_image_hash, img, processed_img,
                   logged, clipboard, clip_open, held, writes, stage,
                   config_vars>>

(* ---- other processes ---- *)

\* the re-copy scenario after an external copy of c
StageAfterCopy(c) ==
    IF c = Content("image", probe)
    THEN (IF stage >= 2 THEN 3 ELSE stage)
    ELSE (IF c.kind = "image" /\ stage >= 2 THEN 1 ELSE stage)

\* another process replaces the clipboard content; it cannot while this
\* process holds the clipboard open
ExtCopy ==
    /\ ~clip_open
    /\ \E c \in ExtContents :
          /\ clipboard' = c
          /\ stage' = StageAfterCopy(c)
    /\ writes' = 0
    /\ UNCHANGED <<exit_event, running_event, icon_running, pc,
                   last_image_hash, img, processed_img, logged, clip_open,
                   held, config_vars>>

(* ---- main thread ---- *)

\* (variant: the exception leaves the loop)
CaughtMutPropagates == "stopped"

\* except Exception, lines 237-238: logged, and on to the sleep
Caught == "sleep"

\* (variant: the hash is recorded before the write is attempted, so that a
\* failed OpenClipboard leaves the write recorded)
RaiseMutRecords ==
    /\ pc' = Caught
    /\ logged' = "Main loop error"
    /\ last_image_hash' = IF pc = "open" THEN get_image_hash(processed_img)
                                         ELSE last_image_hash
    /\ UNCHANGED <<img, processed_img, clipboard, clip_open, held, writes, stage>>

\* an exception raised inside the try block, nothing else having changed
Raise ==
    /\ pc' = Caught
    /\ logged' = "Main loop error"
    /\ UNCHANGED <<last_image_hash, img, processed_img, clipboard, clip_open,
                   held, writes, stage>>

\* while not exit_event.is_set(), line 211, and line 242
LoopTest ==
    /\ pc = "loop"
    /\ pc' = IF exit_event THEN "stopped" ELSE "wait"
    /\ UNCHANGED <<exit_event, running_event, icon_running, last_image_hash,
                   img, processed_img, logged, clipboard, clip_open, held,
                   writes, stage, config_vars>>

\* (variant: the wait returns whatever the flag)
WaitMutNoBlock == TRUE

\* running_event.wait(), line 212, returns once the flag is set
WaitReturns == running_event

Wait ==
    /\ pc = "wait"
    /\ WaitReturns
    /\ pc' = "grab"
    /\ UNCHANGED <<exit_event, running_event, icon_running, last_image_hash,
                   img, processed_img, logged, clipboard, clip_open, held,
                   writes, stage, config_vars>>

\* (variant: the hash of the image read is recorded)
RecordedMutInput(current_hash, processed_hash) == current_hash

\* what line 228 records after a write
Recorded(current_hash, processed_hash) == processed_hash

\* lines 215-232, up to the call of send_image_to_clipboard
Grab ==
    /\ pc = "grab"
    /\ \/ Raise
       \/ /\ clipboard.kind = "image"
          /\ img' = clipboard.img
          /\ LET current_hash == get_image_hash(clipboard.img)
                 processed == trim_and_expand_border_to_content(
                                  clipboard.img, PADDING, TOLERANCE)
                 processed_hash == get_image_hash(processed)
             IN IF current_hash # last_image_hash
                THEN /\ processed_img' = processed
                     /\ IF processed_hash # current_hash
                        THEN /\ logged' = "Updating clipboard"
                             /\ pc' = "open"
                             /\ UNCHANGED last_image_hash
                        ELSE /\ last_image_hash' = current_hash
                             /\ logged' = "No borders detected"
                             /\ pc' = "sleep"
                ELSE /\ pc' = "sleep"
                     /\ UNCHANGED <<processed_img, logged, last_image_hash>>
          /\ UNCHANGED <<clipboard, clip_open, held, writes, stage>>
       \/ /\ clipboard.kind # "image"
          /\ img' = NoImage
          /\ pc' = "paste"
          /\ UNCHANGED <<last_image_hash, processed_img, logged, clipboard,
                         clip_open, held, writes, stage>>
    /\ UNCHANGED <<exit_event, running_event, icon_running, config_vars>>

\* pyperclip.paste(): the clipboard's text, "" when it holds no text
paste_text(c) == IF c.kind = "text" THEN "text" ELSE ""

\* (variants: reset whatever the text; never reset)
AfterPasteMutAlways(text) == None
AfterPasteMutNever(text) == last_image_hash
\* (variant: the test of line 234 inverted)
AfterPasteMutInverted(text) == IF text = "" THEN last_image_hash ELSE None

\* lines 234-235
AfterPaste(text) == IF text = "" THEN None ELSE last_image_hash

Paste ==
    /\ pc = "paste"
    /\ \/ Raise
       \/ /\ last_image_hash' = AfterPaste(paste_text(clipboard))
          /\ stage' = IF clipboard.kind = "empty" /\ stage >= 1 THEN 2 ELSE stage
          /\ pc' = "sleep"
          /\ UNCHANGED <<img, processed_img, logged, clipboard, clip_open,
                         held, writes>>
    /\ UNCHANGED <<exit_event, running_event, icon_running, config_vars>>

\* OpenClipboard, line 138 (lines 133-136 before it are local)
Open ==
    /\ pc = "open"
    /\ \/ Raise
       \/ /\ clip_open' = TRUE
          /\ held' = clipboard
          /\ pc' = "empty"
          /\ UNCHANGED <<last_image_hash, img, processed_img, logged,
                         clipboard, writes, stage>>
    /\ UNCHANGED <<exit_event, running_event, icon_running, config_vars>>

\* (variant: no finally clause, the clipboard stays open after a failure)
RaiseInTryMutLeak ==
    /\ pc' = Caught
    /\ logged' = "Main loop error"
    /\ UNCHANGED <<last_image_hash, img, processed_img, clipboard, clip_open,
                   held, writes, stage>>

\* finally: CloseClipboard(), lines 142-143, on the way out of a failure
RaiseInTry ==
    /\ clip_open' = FALSE
    /\ held' = Empty
    /\ pc' = Caught
    /\ logged' = "Main loop error"
    /\ UNCHANGED <<last_image_hash, img, processed_img, clipboard, writes, stage>>

\* EmptyClipboard, line 140
EmptyClipboard ==
    /\ pc = "empty"
    /\ \/ RaiseInTry
       \/ /\ clipboard' = Empty
          /\ pc' = "set"
          /\ UNCHANGED <<last_image_hash, img, processed_img, logged,
                         clip_open, held, writes, stage>>
    /\ UNCHANGED <<exit_event, running_event, icon_running, config_vars>>

\* SetClipboardData(CF_DIB, data), line 141: the 24-bit RGB bitmap
SetClipboardData ==
    /\ pc = "set"
    /\ \/ RaiseInTry
       \/ /\ clipboard' = Content("image", convertRGB(processed_img))
          /\ writes' = Min(writes + 1, MaxWrites)
          /\ pc' = "close"
          /\ UNCHANGED <<last_image_hash, img, processed_img, logged,
                         clip_open, held, stage>>
    /\ UNCHANGED <<exit_event, running_event, icon_running, config_vars>>

\* CloseClipboard on the normal path, line 143, then lines 228-229
Close ==
    /\ pc = "close"
    /\ clip_open' = FALSE
    /\ held' = Empty
    /\ last_image_hash' = Recorded(get_image_hash(img), get_image_hash(processed_img))
    /\ logged' = "Trimmed to content"
    /\ stage' = IF img = probe THEN 1 ELSE stage
    /\ pc' = "sleep"
    /\ UNCHANGED <<exit_event, running_event, icon_running, img, processed_img,
                   clipboard, writes, config_vars>>

\* time.sleep(1), line 240; img and processed_img are dead until lines 215
\* and 222 assign them again
Sleep ==
    /\ pc = "sleep"
    /\ pc' = "loop"
    /\ logged' = "none"
    /\ img' = NoImage
    /\ processed_img' = NoImage
    /\ UNCHANGED <<exit_event, running_event, icon_running, last_image_hash,
                   clipboard, clip_open, held, writes, stage, config_vars>>

MainThread ==
    \/ LoopTest
    \/ Wait
    \/ Grab
    \/ Paste
    \/ Open
    \/ EmptyClipboard
    \/ SetClipboardData
    \/ Close
    \/ Sleep

Next == MainThread \/ toggle_pause \/ on_exit \/ ExtCopy

Spec == Init /\ [][Next]_vars

\* the main thread is scheduled whenever it can run
FairSpec == Spec /\ WF_vars(MainThread)

-----------------------------------------------------------------------------
(* Claims about the monitor (checked under Spec, C2 under FairSpec).       *)

Failed == "Main loop error"

\* the positions at which the main thread's next step uses the clipboard
ClipboardPcs == {"grab", "paste", "open", "empty", "set", "close"}

\* C2 (as stated): once the exit signal is raised the monitor loop
\* eventually reaches STOPPED, whether it was running or paused.
C2_ExitTerminates == exit_event ~> (pc = "stopped")

\* C3 (as stated): no step of the main thread uses the clipboard while the
\* running flag is cleared, under every interleaving with the toggle.
C3_NoAccessWhilePaused ==
    [][(pc \in ClipboardPcs /\ pc' # pc) => running_event]_vars

\* C3 (amended): a main thread that reaches the wait at the top of the loop
\* while the running flag is cleared stays there, and so starts no clipboard
\* access, until the flag is set again.
C3_BlockedWhilePaused ==
    [][(pc = "wait" /\ ~running_event) => pc' = "wait"]_vars

C3_Witness ==
    /\ pc = "wait"
    /\ ~running_event
    /\ clipboard.kind = "image"
    /\ get_image_hash(clipboard.img) # last_image_hash

\* C4 (as stated): when a step of the clipboard write fails (open, empty or
\* set), the clipboard afterwards holds what it held before the write.
C4_AllOrNothing ==
    [][(pc \in {"open", "empty", "set"} /\ logged' = Failed)
          => clipboard' = (IF pc = "open" THEN clipboard ELSE held)]_vars

\* C5: between two external copies the monitor completes at most one
\* clipboard write; the poll after its own write is a no-op.
C5_AtMostOneWrite == writes <= 1

C5_Witness ==
    /\ writes = 1
    /\ pc = "sleep"
    /\ img = clipboard.img
    /\ clipboard.kind = "image"
    /\ processed_img = NoImage
    /\ logged = "none"

\* C6: after the monitor wrote the normalization of image A and then polled
\* a cleared clipboard, a poll that reads a fresh copy of A normalizes A
\* again and goes on to write the result.
C6_Reprocess ==
    [][(/\ stage = 3
        /\ clipboard = Content("image", probe)
        /\ pc = "grab"
        /\ pc' # "grab"
        /\ logged' # Failed)
          => /\ pc' = "open"
             /\ processed_img' =
                    trim_and_expand_border_to_content(probe, PADDING, TOLERANCE)]_vars

C6_Witness ==
    /\ stage = 3
    /\ pc = "close"
    /\ img = probe
    /\ clipboard = Content("image", convertRGB(
           trim_and_expand_border_to_content(probe, PADDING, TOLERANCE)))

\* C8 (as stated): the write-back of a newly seen image is skipped only
\* when the normalized image has the width, height and RGB pixels of the
\* input.
C8_SkipOnlyIfSame ==
    logged = "No borders detected" => SameVisible(img, processed_img)

\* C9: a failure inside an iteration leads to the sleep and the next poll;
\* the loop ends only at the loop test, with the exit signal raised.
C9_FailureCaught ==
    [][/\ (logged' = Failed /\ pc' # pc) => pc' = "sleep"
       /\ (pc = "sleep" /\ pc' # pc) => pc' = "loop"
       /\ (pc' = "stopped" /\ pc # "stopped") => (pc = "loop" /\ exit_event)]_vars

C9_Witness ==
    /\ logged = Failed
    /\ pc = "sleep"
    /\ ~exit_event

\* C10 (as stated): a poll of a clipboard that holds no image (empty text,
\* non-empty text or other content) resets last_image_hash.
C10_ResetOnAnyNonImage ==
    [][(/\ pc = "paste"
        /\ pc' = "sleep"
        /\ logged' # Failed
        /\ clipboard.kind # "image")
          => last_image_hash' = None]_vars

\* C10 (amended): such a poll resets last_image_hash when the text read is
\* empty (cleared clipboard, non-text content) and leaves it unchanged when
\* the clipboard holds non-empty text.
C10_ResetUnlessText ==
    [][(/\ pc = "paste"
        /\ pc' = "sleep"
        /\ logged' # Failed
        /\ clipboard.kind # "image")
          => last_image_hash' =
                 (IF clipboard.kind = "text" THEN last_image_hash ELSE None)]_vars

C10_Witness ==
    /\ pc = "sleep"
    /\ stage = 2
    /\ clipboard = Empty
    /\ last_image_hash = None


\* C11: the clipboard is held open only inside send_image_to_clipboard,
\* between OpenClipboard and CloseClipboard: it is closed on every way out,
\* a failure of the empty or set step included, so it is never open at the
\* sleep, at the next iteration's reads or at the next OpenClipboard.
C11_ScopedAcquisition ==
    /\ clip_open => pc \in {"empty", "set", "close"}
    /\ pc \in {"loop", "wait", "grab", "paste", "open", "sleep", "stopped"}
          => (~clip_open /\ held = Empty)

\* a failure after the clipboard was opened and emptied, the clipboard closed
C11_Witness ==
    /\ pc = "sleep"
    /\ logged = Failed
    /\ processed_img # NoImage
    /\ writes = 0
    /\ clipboard = Empty
    /\ ~clip_open


\* the step that ends an iteration in which an image was read
IterationEnds ==
    /\ pc \in {"grab", "open", "empty", "set", "close"}
    /\ pc' = "sleep"
    /\ img' # NoImage

\* what the claim says of such an iteration: an already seen image changes
\* nothing; a new one is written exactly if its normalization has another
\* fingerprint, and that fingerprint is recorded either way
IterationOutcome ==
    IF processed_img' = NoImage
    THEN /\ get_image_hash(img') = last_image_hash
         /\ last_image_hash' = last_image_hash
         /\ clipboard' = clipboard
    ELSE /\ get_image_hash(img') # last_image_hash
         /\ last_image_hash' = get_image_hash(processed_img')
         /\ (pc = "close") <=> (get_image_hash(processed_img') # get_image_hash(img'))
         /\ (pc = "close") => clipboard = Content("image", convertRGB(processed_img'))
         /\ (pc # "close") => clipboard' = clipboard

\* C13 (as stated): every iteration that reads an image ends as described,
\* and last_image_hash changes only to the fingerprint just written or just
\* observed as canonical (or to empty).
C13_EveryIteration ==
    [][/\ IterationEnds => IterationOutcome
       /\ (last_image_hash' # last_image_hash)
             => \/ last_image_hash' = None
                \/ IterationEnds /\ last_image_hash' = get_image_hash(processed_img')]_vars

\* C13 (amended): the same for every iteration in which no step raises; an
\* iteration whose write raises records nothing.
C13_IterationWithoutFailure ==
    [][/\ (IterationEnds /\ logged' # Failed) => IterationOutcome
       /\ (IterationEnds /\ logged' = Failed) => last_image_hash' = last_image_hash
       /\ (last_image_hash' # last_image_hash)
             => \/ last_image_hash' = None
                \/ IterationEnds /\ last_image_hash' = get_image_hash(processed_img')]_vars

C13_Witness ==
    /\ pc = "sleep"
    /\ logged = "Trimmed to content"
    /\ get_image_hash(img) # last_image_hash
    /\ last_image_hash = get_image_hash(processed_img)
    /\ clipboard = Content("image", convertRGB(processed_img))


C15_FailedWriteNotRecorded ==
    [][/\ (pc \in {"open", "empty", "set"} /\ logged' = Failed)
             => /\ last_image_hash' = last_image_hash
                /\ get_image_hash(img') # last_image_hash'
                /\ pc' = "sleep"
       /\ (pc = "open" /\ logged' = Failed) => clipboard' = clipboard]_vars

\* a failed write with the image read still on the clipboard and still new
C15_Witness ==
    /\ pc = "sleep"
    /\ logged = Failed
    /\ processed_img # NoImage
    /\ clipboard = Content("image", img)
    /\ get_image_hash(img) # last_image_hash
    /\ get_image_hash(processed_img) # last_image_hash


\* C18: the monitor only replaces clipboard content it has read: the image
\* it writes is the normalization of the image that was on the clipboard
\* when the write began, so a copy by another process between the
\* iteration's read and its write is never overwritten.
C18_WritesOverWhatItRead ==
    pc = "close"
       => /\ held.kind = "image"
          /\ clipboard.img =
                convertRGB(trim_and_expand_border_to_content(
                               held.img, PADDING, TOLERANCE))
====
